---- MODULE Spec2Model ----
(***************************************************************************)
(* Model of src/Example.py: the loader, the department/branch/semester     *)
(* filters and the six aggregation functions of the student performance    *)
(* dashboard.                                                              *)
(*                                                                         *)
(* A table (pandas DataFrame) is a sequence of rows; a row is a record     *)
(* with the ten required columns.  The computed "Pass" column that three   *)
(* of the aggregation functions add to their input is kept beside the      *)
(* table in PassCol (<<>> while the column does not exist).  A derived     *)
(* table is a function from its key to its value columns: the order of     *)
(* its rows is not modelled.  A subject code is the sequence of its        *)
(* characters, so that str.startswith is computed and not assumed.  A mark *)
(* cell is a number, a text or a missing value (NaN); a mean is an exact   *)
(* fraction in lowest terms.                                               *)
(***************************************************************************)
EXTENDS Integers, Sequences, FiniteSets, TLC

VARIABLES pc, upload, df, sel, filtered_df, PassCol, called, out, msg

vars == <<pc, upload, df, sel, filtered_df, PassCol, called, out, msg>>

\* Longest table the model loads.
MaxRows == 2

Range(s) == {s[i] : i \in DOMAIN s}

(***************************************************************************)
(* Static configuration                                                    *)
(***************************************************************************)
DEPT_ABBREVIATIONS ==
       "AEROSPACE ENGINEERING" :> "AERO"
    @@ "AUTOMOBILE ENGINEERING" :> "AUTO"
    @@ "ELECTRONICS ENGINEERING" :> "ECE"
    @@ "INFORMATION TECHNOLOGY" :> "IT"
    @@ "INSTRUMENTATION ENGINEERING" :> "E&I"
    @@ "PRODUCTION TECHNOLOGY" :> "PT"
    @@ "RUBBER AND PLASTICS TECHNOLOGY" :> "RPT"

DEPT_PREFIX ==
       "Aerospace" :> <<"A","E">>
    @@ "Automobile" :> <<"A","U">>
    @@ "Electronics Comm" :> <<"E","C">>
    @@ "Artificial Intelligence" :> <<"A","Z">>
    @@ "Information Tech" :> <<"I","T">>
    @@ "Inst Eng" :> <<"E","I">>
    @@ "Mech" :> <<"M","E">>
    @@ "Production" :> <<"P","R">>
    @@ "Robotics" :> <<"R","O">>
    @@ "Rubber and Plastics" :> <<"R","P">>

required_cols ==
    <<"DEPNAME", "BRNAME", "SEM", "REGNO", "SUBCODE", "SUBTYPE",
      "SESMARK", "ESEM", "TOTMARK", "GRADE">>

columns_to_keep ==
    <<"DEPNAME", "BRNAME", "SEM", "REGNO", "SUBCODE", "SUBTYPE",
      "SESMARK", "ESEM", "TOTMARK", "GRADE">>

grade_order == <<"O", "A+", "A", "B+", "B", "C", "U">>

mark_columns == <<"SESMARK", "ESEM", "TOTMARK">>

(***************************************************************************)
(* Mark cells and pd.to_numeric(errors="coerce")                           *)
(***************************************************************************)
Num(n) == [t |-> "num", n |-> n, s |-> <<>>]
Txt(s) == [t |-> "txt", n |-> 0, s |-> s]
NaN == [t |-> "nan", n |-> 0, s |-> <<>>]

DigitChars == {"0", "1", "2", "3", "4", "5", "6", "7", "8", "9"}

DigitValue(ch) ==
    CASE ch = "0" -> 0 [] ch = "1" -> 1 [] ch = "2" -> 2 [] ch = "3" -> 3
      [] ch = "4" -> 4 [] ch = "5" -> 5 [] ch = "6" -> 6 [] ch = "7" -> 7
      [] ch = "8" -> 8 [] ch = "9" -> 9

RECURSIVE DigitsValue(_)
DigitsValue(s) ==
    IF s = <<>> THEN 0
    ELSE 10 * DigitsValue(SubSeq(s, 1, Len(s) - 1)) + DigitValue(s[Len(s)])

\* Faulty variant of to_numeric: an unparseable cell becomes 0.
to_numeric_zero(c) ==
    IF c.t = "num" THEN c
    ELSE IF c.t = "txt" /\ c.s # <<>> /\ Range(c.s) \subseteq DigitChars
         THEN Num(DigitsValue(c.s))
         ELSE Num(0)

\* Faulty variant of to_numeric: missing cells are filled with 0 before the
\* coercion.
to_numeric_fillna(c) ==
    IF c.t = "num" THEN c
    ELSE IF c.t = "nan" THEN Num(0)
    ELSE IF c.s # <<>> /\ Range(c.s) \subseteq DigitChars
         THEN Num(DigitsValue(c.s))
         ELSE NaN

\* pd.to_numeric(errors="coerce") on one cell: a number stays, a text of
\* decimal digits parses, anything else becomes NaN.  (Signs, decimal
\* points and exponents are outside the cells the model loads.)
to_numeric(c) ==
    IF c.t = "num" THEN c
    ELSE IF c.t = "txt" /\ c.s # <<>> /\ Range(c.s) \subseteq DigitChars
         THEN Num(DigitsValue(c.s))
         ELSE NaN

\* Faulty variant of coerce_marks: the rows left with a missing mark are
\* dropped from the table.
coerce_marks_dropna(d) ==
    LET c == [i \in DOMAIN d |->
                 [d[i] EXCEPT !.SESMARK = to_numeric(d[i].SESMARK),
                              !.ESEM = to_numeric(d[i].ESEM),
                              !.TOTMARK = to_numeric(d[i].TOTMARK)]]
        Complete(r) == r.SESMARK # NaN /\ r.ESEM # NaN /\ r.TOTMARK # NaN
    IN SelectSeq(c, Complete)

\* df[[...]] = df[[...]].apply(pd.to_numeric, errors="coerce")
coerce_marks(d) ==
    [i \in DOMAIN d |->
        [d[i] EXCEPT !.SESMARK = to_numeric(d[i].SESMARK),
                     !.ESEM = to_numeric(d[i].ESEM),
                     !.TOTMARK = to_numeric(d[i].TOTMARK)]]

RECURSIVE GCD(_, _)
GCD(a, b) == IF b = 0 THEN a ELSE GCD(b, a % b)

Fraction(s, n) ==
    IF n = 0 THEN [num |-> 0, den |-> 0]
    ELSE LET g == GCD(s, n) IN [num |-> s \div g, den |-> n \div g]

\* Sum and count of the non-missing cells of column col in the rows of
\* subject code s: what groupby("SUBCODE")[col].mean() divides.
RECURSIVE GroupSum(_, _, _)
GroupSum(d, s, col) ==
    IF d = <<>> THEN [sum |-> 0, count |-> 0]
    ELSE LET rest == GroupSum(Tail(d), s, col)
             c == Head(d)[col]
         IN IF Head(d).SUBCODE = s /\ c.t = "num"
            THEN [sum |-> rest.sum + c.n, count |-> rest.count + 1]
            ELSE rest

group_mean(d, s, col) ==
    LET g == GroupSum(d, s, col) IN Fraction(g.sum, g.count)

(***************************************************************************)
(* The aggregation functions                                               *)
(***************************************************************************)
\* df["Pass"] = df["GRADE"] != "U"
pass_column(d) == [i \in DOMAIN d |-> d[i].GRADE # "U"]

\* Faulty variant of group_all: .any() in place of .all().
RECURSIVE group_any(_, _, _)
group_any(d, p, r) ==
    IF d = <<>> THEN FALSE
    ELSE (Head(d).REGNO = r /\ Head(p)) \/ group_any(Tail(d), Tail(p), r)

\* df.groupby("REGNO")["Pass"].all() for one REGNO
RECURSIVE group_all(_, _, _)
group_all(d, p, r) ==
    IF d = <<>> THEN TRUE
    ELSE (Head(d).REGNO = r => Head(p)) /\ group_all(Tail(d), Tail(p), r)

status_label(b) == IF b THEN "Pass" ELSE "Fail"

determine_pass_fail(d, p) ==
    [r \in {d[i].REGNO : i \in DOMAIN d} |->
        LET a == group_all(d, p, r) IN [Pass |-> a, Status |-> status_label(a)]]

\* groupby(keys).size(): the number of rows of each observed key, keys
\* being the key of each row.
group_size(keys) ==
    [k \in Range(keys) |-> Cardinality({i \in DOMAIN keys : keys[i] = k})]

\* Faulty variant of reindex: the sparse table is returned as it is.
reindex_sparse(sizes, index) == sizes

\* .reindex(index, fill_value=0): exactly the keys of index, in which a key
\* without a group gets 0 and a group whose key is not in index is dropped.
reindex(sizes, index) ==
    [k \in index |-> IF k \in DOMAIN sizes THEN sizes[k] ELSE 0]

grade_distribution_per_subject(d) ==
    LET subjects == {d[i].SUBCODE : i \in DOMAIN d}
        all_combinations == subjects \X Range(grade_order)
        keys == [i \in DOMAIN d |-> <<d[i].SUBCODE, d[i].GRADE>>]
    IN reindex(group_size(keys), all_combinations)

\* df[df["GRADE"] == "U"].groupby("REGNO")["SUBCODE"].count()
fail_count(d, r) ==
    Cardinality({i \in DOMAIN d : d[i].GRADE = "U" /\ d[i].REGNO = r})

\* Faulty variant of subjects_failed: students without a failed row are
\* counted under 0.
subjects_failed_all(d) ==
    LET students == {d[i].REGNO : i \in DOMAIN d}
    IN [k \in {fail_count(d, r) : r \in students} |->
           Cardinality({r \in students : fail_count(d, r) = k})]

\* ...count().value_counts(): failed-subject count -> number of students
subjects_failed(d) ==
    LET failed == {d[i].REGNO : i \in {j \in DOMAIN d : d[j].GRADE = "U"}}
    IN [k \in {fail_count(d, r) : r \in failed} |->
           Cardinality({r \in failed : fail_count(d, r) = k})]

\* groupby("SUBCODE").agg(mean of the three mark columns) of the table c
\* whose mark columns line 99 has coerced, renamed by line 105.
avg_marks_per_subject(c) ==
    [s \in {c[i].SUBCODE : i \in DOMAIN c} |->
        [INTERNAL |-> group_mean(c, s, "SESMARK"),
         EXTERNAL |-> group_mean(c, s, "ESEM"),
         TOTAL |-> group_mean(c, s, "TOTMARK")]]

\* groupby(["SUBCODE", "Pass"]).size().unstack(fill_value=0).reset_index()
\* has one column per observed value of Pass besides SUBCODE; naming three
\* columns raises ValueError unless both values were observed.
subject_wise_pass_fail(d, p) ==
    LET keys == [i \in DOMAIN d |-> <<d[i].SUBCODE, p[i]>>]
        sizes == group_size(keys)
        observed == {k[2] : k \in DOMAIN sizes}
        subjects == {k[1] : k \in DOMAIN sizes}
        unstacked == [k \in subjects \X observed |->
                         IF k \in DOMAIN sizes THEN sizes[k] ELSE 0]
    IN IF Cardinality(observed) + 1 # Len(<<"SUBJECT CODE", "Fail", "Pass">>)
       THEN [ok |-> FALSE, t |-> <<>>]
       ELSE [ok |-> TRUE,
             t |-> [s \in subjects |->
                      [Fail |-> unstacked[<<s, FALSE>>],
                       Pass |-> unstacked[<<s, TRUE>>]]]]

\* Faulty variant of student_departments: one entry per row, not per student.
student_departments_rows(d) ==
    {<<i, d[i].REGNO, d[i].DEPNAME>> : i \in DOMAIN d}

\* df[["REGNO", "DEPNAME"]].drop_duplicates(), merged on REGNO: one entry
\* per distinct (REGNO, DEPNAME) pair.  (The leading 0 stands for the row
\* label, which the merge does not keep.)
student_departments(d) ==
    {<<0, d[i].REGNO, d[i].DEPNAME>> : i \in DOMAIN d}

\* DEPNAME.map(DEPT_ABBREVIATIONS), groupby(["DEPNAME_SHORT", "Status"])
\* (which drops the rows whose short name is missing), unstack, reindex.
department_wise_pass_fail(d, p) ==
    LET status == determine_pass_fail(d, p)
        merged == {m \in student_departments(d) :
                      m[3] \in DOMAIN DEPT_ABBREVIATIONS}
        shorts == {DEPT_ABBREVIATIONS[m[3]] : m \in merged}
        Count(sh, st) ==
            Cardinality({m \in merged : /\ DEPT_ABBREVIATIONS[m[3]] = sh
                                        /\ status[m[2]].Status = st})
    IN [sh \in shorts |-> [Pass |-> Count(sh, "Pass"), Fail |-> Count(sh, "Fail")]]
(***************************************************************************)
(* Loading and filtering                                                   *)
(***************************************************************************)
NoMessage == [level |-> "none", text |-> <<>>]

\* Faulty variant of load_data: None is returned without a message when a
\* required column is missing.
load_data_silent(u) ==
    IF u.kind = "corrupt"
    THEN [df |-> <<>>, none |-> TRUE,
          msg |-> [level |-> "error", text |-> <<"Error loading file: ", u.cause>>]]
    ELSE IF ~(\A col \in Range(required_cols) : col \in u.columns)
    THEN [df |-> <<>>, none |-> TRUE, msg |-> NoMessage]
    ELSE [df |-> u.rows, none |-> FALSE, msg |-> NoMessage]

\* load_data: the table, or None with the message st.error shows.
load_data(u) ==
    IF u.kind = "corrupt"
    THEN [df |-> <<>>, none |-> TRUE,
          msg |-> [level |-> "error", text |-> <<"Error loading file: ", u.cause>>]]
    ELSE IF ~(\A col \in Range(required_cols) : col \in u.columns)
    THEN [df |-> <<>>, none |-> TRUE,
          msg |-> [level |-> "error",
                   text |-> <<"Excel file is missing required columns!">>]]
    ELSE [df |-> u.rows, none |-> FALSE, msg |-> NoMessage]

\* str.startswith(prefix)
startswith(s, prefix) ==
    Len(s) >= Len(prefix) /\ SubSeq(s, 1, Len(prefix)) = prefix

extra_subjects ==
       "Aeronautical" :> <<
       <<"H","M","5","5","0","3">>, <<"E","C","5","7","9","7">>, <<"P","R","5","7","9","1">>, <<"E","C","5","7","9","6">>,
       <<"R","P","5","5","9","1">>, <<"E","I","5","7","9","1">>, <<"A","U","5","7","9","1">>, <<"M","E","5","7","9","6">>,
       <<"I","T","5","7","9","4">> >>
    @@ "Automobile" :> <<
       <<"G","E","5","5","5","2">>, <<"I","T","5","7","9","4">>, <<"G","E","5","4","5","1">>, <<"I","T","M","5","0","3">>,
       <<"I","T","M","5","0","5">>, <<"E","C","5","7","9","6">>, <<"E","C","5","7","9","7">>, <<"P","R","5","7","9","1">>,
       <<"R","P","5","5","9","1">>, <<"A","E","5","7","9","5">>, <<"M","E","5","7","9","6">> >>
    @@ "ECE" :> <<
       <<"H","U","5","1","7","6">>, <<"I","T","5","7","9","4">>, <<"M","G","5","4","5","1">>, <<"P","H","5","2","0","2">>,
       <<"E","I","5","7","9","1">>, <<"H","U","5","1","7","2">>, <<"H","U","5","1","7","1">>, <<"M","E","5","7","9","6">>,
       <<"H","U","5","1","7","3">>, <<"P","R","5","7","9","1">>, <<"H","U","5","1","7","7">>, <<"A","U","5","7","9","1">>,
       <<"A","E","5","7","9","5">>, <<"H","U","5","1","7","4">>, <<"R","P","5","5","9","1">> >>
    @@ "AI" :> <<
       <<"H","U","5","1","7","3">>, <<"H","U","5","1","7","6">>, <<"H","U","5","1","7","1">>, <<"H","U","5","1","7","2">>,
       <<"H","U","5","1","7","7">> >>
    @@ "IT" :> <<
       <<"H","U","5","1","7","4">>, <<"H","U","5","1","7","7">>, <<"H","U","5","1","7","2">>, <<"H","U","5","1","7","3">>,
       <<"H","U","5","1","7","6">>, <<"H","U","5","1","7","1">>, <<"E","C","5","7","9","7">>, <<"E","C","5","7","9","6">>,
       <<"A","E","5","7","9","5">>, <<"A","U","5","7","9","1">>, <<"E","I","5","7","9","1">>, <<"M","E","5","7","9","6">>,
       <<"P","R","5","7","9","1">>, <<"R","P","5","5","9","1">> >>
    @@ "EI" :> <<
       <<"H","M","5","5","0","1">>, <<"M","E","5","7","9","6">>, <<"R","P","5","5","9","1">>, <<"E","C","5","7","9","6">>,
       <<"E","C","5","7","9","7">>, <<"I","T","5","7","9","4">>, <<"P","R","5","7","9","1">>, <<"A","E","5","7","9","5">> >>
    @@ "Mech" :> <<
       <<"I","T","M","5","0","3">>, <<"I","T","M","5","0","5">>, <<"A","U","5","7","9","1">>, <<"A","E","5","7","9","5">>,
       <<"G","E","5","1","5","2">>, <<"M","A","5","2","5","2">> >>
    @@ "Production" :> <<
       <<"G","E","5","5","5","1">>, <<"H","S","5","1","5","1">>, <<"I","T","M","5","0","3">>, <<"I","T","M","5","0","5">>,
       <<"E","E","M","5","0","4">>, <<"E","E","M","5","0","3">>, <<"E","I","5","7","9","1">>, <<"E","C","5","7","9","6">>,
       <<"I","T","5","7","9","4">>, <<"A","E","5","7","9","5">> >>
    @@ "Robo" :> <<
       <<"E","E","5","4","0","2">>, <<"I","T","M","5","0","3">>, <<"I","T","M","5","0","5">>, <<"M","A","5","1","5","8">> >>
    @@ "Rubber" :> <<
       <<"H","U","5","1","7","1">>, <<"H","U","5","1","7","6">>, <<"H","U","5","1","7","2">>, <<"I","T","M","5","0","3">>,
       <<"I","T","M","5","0","5">>, <<"H","U","5","1","7","7">>, <<"H","U","5","1","7","4">>, <<"G","E","5","4","5","1">>,
       <<"M","E","5","7","9","6">>, <<"E","C","5","7","9","7">>, <<"A","E","5","7","9","5">>, <<"A","U","5","7","9","1">>,
       <<"E","C","5","7","9","6">> >>

\* Faulty variant of drop_duplicates: nothing is dropped.
keep_duplicates(t) == t

\* DataFrame.drop_duplicates(): the first occurrence of each row is kept.
RECURSIVE drop_duplicates(_)
drop_duplicates(t) ==
    IF t = <<>> THEN <<>>
    ELSE LET init == SubSeq(t, 1, Len(t) - 1)
             last == t[Len(t)]
         IN IF last \in Range(init) THEN drop_duplicates(init)
            ELSE Append(drop_duplicates(init), last)

\* The "Others (Open Elective)" branch of the department filter.
others_filter(d) ==
    LET all_prefixes == Range(DEPT_PREFIX)
        NoPrefix(r) == ~(\E q \in all_prefixes : startswith(r.SUBCODE, q))
        df_others == SelectSeq(d, NoPrefix)
        subject_list ==
            Range([i \in DOMAIN df_others |-> df_others[i].SUBCODE])
                \cup UNION {Range(extra_subjects[k]) : k \in DOMAIN extra_subjects}
        Listed(r) == r.SUBCODE \in subject_list
        df_extra == SelectSeq(d, Listed)
    IN drop_duplicates(df_others \o df_extra)

department_filter(d, s) ==
    IF s.department = "Others (Open Elective)" THEN others_filter(d)
    ELSE IF s.department # "Overall"
    THEN LET InDept(r) == r.DEPNAME = s.department
             InBranch(r) == r.BRNAME = s.branch
             by_dept == SelectSeq(d, InDept)
         IN IF s.branch # "All" THEN SelectSeq(by_dept, InBranch) ELSE by_dept
    ELSE d

\* int(selected_semester) for the options of the semester selector
int(str) == CASE str = "5" -> 5 [] str = "7" -> 7

semester_filter(d, s) ==
    IF s.semester # "Overall"
    THEN LET InSem(r) == r.SEM = int(s.semester) IN SelectSeq(d, InSem)
    ELSE d

department_options(d) ==
    {"Overall", "Others (Open Elective)"} \cup {d[i].DEPNAME : i \in DOMAIN d}

branch_options(d, dept) ==
    IF dept \notin {"Overall", "Others (Open Elective)"}
    THEN {"All"} \cup {d[i].BRNAME : i \in {j \in DOMAIN d : d[j].DEPNAME = dept}}
    ELSE {"All"}

semester_options == {"Overall", "5", "7"}

\* The order in which one render cycle calls the aggregation functions.
call_sequence ==
    <<"determine_pass_fail", "subjects_failed", "department_wise_pass_fail",
      "subject_wise_pass_fail", "avg_marks_per_subject",
      "grade_distribution_per_subject">>

NoTable == [ok |-> TRUE, t |-> <<>>]

NoOutput == [f \in Range(call_sequence) |-> NoTable]
(***************************************************************************)
(* One render cycle                                                        *)
(***************************************************************************)
\* A function may be called when the cycle has reached it (lines 347-352),
\* or at any time when the functions are exercised on their own.
CanCall(f) ==
    \/ pc = "isolated"
    \/ /\ pc = "aggregate"
       /\ Cardinality(called) < Len(call_sequence)
       /\ f = call_sequence[Cardinality(called) + 1]

\* Where the cycle stands after f returned (ok) or raised.
After(f, ok) ==
    IF pc = "isolated" THEN "isolated"
    ELSE IF ~ok THEN "raised"
    ELSE IF f = call_sequence[Len(call_sequence)] THEN "render"
    ELSE "aggregate"

\* if uploaded_file: is false, nothing below line 296 runs.
NoUpload ==
    /\ pc = "start"
    /\ upload.kind = "none"
    /\ pc' = "idle"
    /\ UNCHANGED <<upload, df, sel, filtered_df, PassCol, called, out, msg>>

\* Lines 296-302: load, stop on None, keep the ten columns.
LoadData ==
    /\ pc = "start"
    /\ upload.kind # "none"
    /\ LET loaded == load_data(upload)
       IN /\ msg' = loaded.msg
          /\ df' = [i \in DOMAIN loaded.df |->
                      [col \in Range(columns_to_keep) |-> loaded.df[i][col]]]
          /\ pc' = IF loaded.none THEN "stopped" ELSE "select"
    /\ UNCHANGED <<upload, sel, filtered_df, PassCol, called, out>>

\* Lines 304-339: the three selectors and the department/branch filter.
SelectFilters ==
    /\ pc = "select"
    /\ \E dept \in department_options(df), sem \in semester_options :
         \E branch \in branch_options(df, dept) :
            /\ sel' = [department |-> dept, branch |-> branch, semester |-> sem]
            /\ filtered_df' = department_filter(df, sel')
    /\ pc' = "semester"
    /\ UNCHANGED <<upload, df, PassCol, called, out, msg>>

\* Faulty variant of FilterSemester: the aggregation is entered without the
\* test of line 344.
FilterSemesterUnchecked ==
    /\ pc = "semester"
    /\ filtered_df' = semester_filter(filtered_df, sel)
    /\ pc' = "aggregate"
    /\ UNCHANGED <<upload, df, sel, PassCol, called, out, msg>>

\* Lines 341-346: the semester filter and the empty-subset warning.
FilterSemester ==
    /\ pc = "semester"
    /\ filtered_df' = semester_filter(filtered_df, sel)
    /\ IF filtered_df' = <<>>
       THEN /\ msg' = [level |-> "warning",
                       text |-> <<"No data available for ", sel.department, " - ",
                                  sel.branch, " in Semester ", sel.semester>>]
            /\ pc' = "warned"
       ELSE /\ msg' = msg
            /\ pc' = "aggregate"
    /\ UNCHANGED <<upload, df, sel, PassCol, called, out>>

Returned(f, result) ==
    /\ out' = [out EXCEPT ![f] = result]
    /\ called' = called \cup {f}
    /\ pc' = After(f, result.ok)
    /\ UNCHANGED <<upload, df, sel, msg>>

DeterminePassFail ==
    /\ CanCall("determine_pass_fail")
    /\ PassCol' = pass_column(filtered_df)
    /\ filtered_df' = filtered_df
    /\ Returned("determine_pass_fail",
                [ok |-> TRUE, t |-> determine_pass_fail(filtered_df, PassCol')])

SubjectsFailed ==
    /\ CanCall("subjects_failed")
    /\ UNCHANGED <<filtered_df, PassCol>>
    /\ Returned("subjects_failed", [ok |-> TRUE, t |-> subjects_failed(filtered_df)])

DepartmentWisePassFail ==
    /\ CanCall("department_wise_pass_fail")
    /\ PassCol' = pass_column(filtered_df)
    /\ filtered_df' = filtered_df
    /\ Returned("department_wise_pass_fail",
                [ok |-> TRUE, t |-> department_wise_pass_fail(filtered_df, PassCol')])

\* Line 110 has written the Pass column when line 112 raises.
SubjectWisePassFail ==
    /\ CanCall("subject_wise_pass_fail")
    /\ PassCol' = pass_column(filtered_df)
    /\ filtered_df' = filtered_df
    /\ Returned("subject_wise_pass_fail",
                subject_wise_pass_fail(filtered_df, PassCol'))

AvgMarksPerSubject ==
    /\ CanCall("avg_marks_per_subject")
    /\ filtered_df' = coerce_marks(filtered_df)
    /\ PassCol' = PassCol
    /\ Returned("avg_marks_per_subject",
                [ok |-> TRUE, t |-> avg_marks_per_subject(filtered_df')])

GradeDistributionPerSubject ==
    /\ CanCall("grade_distribution_per_subject")
    /\ UNCHANGED <<filtered_df, PassCol>>
    /\ Returned("grade_distribution_per_subject",
                [ok |-> TRUE, t |-> grade_distribution_per_subject(filtered_df)])

(***************************************************************************)
(* Inputs                                                                  *)
(***************************************************************************)
Row(dep, br, sem, reg, sub, ses, ese, tot, g) ==
    [DEPNAME |-> dep, BRNAME |-> br, SEM |-> sem, REGNO |-> reg, SUBCODE |-> sub,
     SUBTYPE |-> "THEORY", SESMARK |-> ses, ESEM |-> ese, TOTMARK |-> tot,
     GRADE |-> g]

AE5501 == <<"A","E","5","5","0","1">>
AE5795 == <<"A","E","5","7","9","5">>
HM5503 == <<"H","M","5","5","0","3">>
CY5151 == <<"C","Y","5","1","5","1">>

TablesOf(rows, lo) == UNION {[1..n -> rows] : n \in lo..MaxRows}

\* Students: registration id, department and grade vary.
StudentRows ==
    {Row(dep, "B.E.", 5, reg, AE5501, Num(1), Num(2), Num(3), g) :
        dep \in {"AEROSPACE ENGINEERING", "INFORMATION TECHNOLOGY",
                 "MECHANICAL ENGINEERING"},
        reg \in {1, 2}, g \in {"O", "U"}}

\* Subjects: subject code and grade vary; "AB" (absent) is a grade outside
\* grade_order.
SubjectRows ==
    {Row("AEROSPACE ENGINEERING", "B.E.", 5, 1, sub, Num(1), Num(2), Num(3), g) :
        sub \in {AE5501, HM5503}, g \in {"O", "A+", "U", "AB"}}

\* Marks: subject code and the three mark cells vary.
MarkTriples ==
    {<<Num(1), Num(2), Num(3)>>,
     <<Txt(<<"3">>), Num(2), Num(5)>>,
     <<Txt(<<"A","B">>), Num(2), Num(2)>>,
     <<Num(1), Txt(<<"A","B">>), Txt(<<"A","B">>)>>,
     <<Num(2), Num(0), Txt(<<"1","2">>)>>,
     <<Txt(<<"A","B">>), Txt(<<"A","B">>), Txt(<<"A","B">>)>>}

MarkRows ==
    {Row("AEROSPACE ENGINEERING", "B.E.", 5, 1, sub, m[1], m[2], m[3], "A") :
        sub \in {AE5501, HM5503}, m \in MarkTriples}

\* Departments, branches and semesters vary.
FilterRows ==
    {Row(dep, br, sem, 1, AE5501, Num(1), Num(2), Num(3), "O") :
        dep \in {"AEROSPACE ENGINEERING", "INFORMATION TECHNOLOGY"},
        br \in {"B.E.", "B.TECH."}, sem \in {5, 6}}

\* Subject codes of the four kinds the open-elective filter tells apart.
ElectiveRows ==
    {Row("AEROSPACE ENGINEERING", "B.E.", 5, 1, sub, Num(1), Num(2), Num(3), g) :
        sub \in {AE5501, AE5795, HM5503, CY5151}, g \in {"O", "U"}}

Sheet(rows) ==
    [kind |-> "sheet", cause |-> "", columns |-> Range(required_cols) \cup {"NAME"},
     rows |-> rows]

Uploads ==
    {[kind |-> "none", cause |-> "", columns |-> {}, rows |-> <<>>],
     [kind |-> "corrupt", cause |-> "File is not a zip file", columns |-> {},
      rows |-> <<>>],
     [kind |-> "corrupt", cause |-> "Worksheet named 'UG' not found",
      columns |-> {}, rows |-> <<>>]}
    \cup {[kind |-> "sheet", cause |-> "", rows |-> <<>>,
           columns |-> (Range(required_cols) \cup {"NAME"}) \ missing] :
             missing \in {{"GRADE"}, {"SESMARK", "ESEM"}, {"DEPNAME", "NAME"}}}
    \cup {Sheet(t) : t \in TablesOf(FilterRows, 0) \cup TablesOf(ElectiveRows, 0)}

NoSelection == [department |-> "Overall", branch |-> "All", semester |-> "Overall"]

\* A render cycle from the upload on.
Init ==
    /\ pc = "start"
    /\ upload \in Uploads
    /\ df = <<>>
    /\ sel = NoSelection
    /\ filtered_df = <<>>
    /\ PassCol = <<>>
    /\ called = {}
    /\ out = NoOutput
    /\ msg = NoMessage

Aggregate ==
    \/ DeterminePassFail
    \/ SubjectsFailed
    \/ DepartmentWisePassFail
    \/ SubjectWisePassFail
    \/ AvgMarksPerSubject
    \/ GradeDistributionPerSubject

Next ==
    \/ NoUpload
    \/ LoadData
    \/ SelectFilters
    \/ FilterSemester
    \/ Aggregate

Spec == Init /\ [][Next]_vars

\* The aggregation functions on their own, on any non-empty table, called
\* in any order and any number of times (the state of the cycle under
\* "Overall" selections, where filtered_df = df.copy()).
InitAgg ==
    /\ pc = "isolated"
    /\ \E t \in TablesOf(StudentRows, 1) \cup TablesOf(SubjectRows, 1)
                   \cup TablesOf(MarkRows, 1) :
          /\ upload = Sheet(t)
          /\ df = t
          /\ filtered_df = t
    /\ sel = NoSelection
    /\ PassCol = <<>>
    /\ called = {}
    /\ out = NoOutput
    /\ msg = NoMessage

SpecAgg == InitAgg /\ [][Aggregate]_vars
(***************************************************************************)
(* Properties                                                              *)
(***************************************************************************)
RECURSIVE SumOver(_, _)
SumOver(S, f) ==
    IF S = {} THEN 0
    ELSE LET x == CHOOSE y \in S : TRUE IN f[x] + SumOver(S \ {x}, f)

Students(d) == {d[i].REGNO : i \in DOMAIN d}

Subjects(d) == {d[i].SUBCODE : i \in DOMAIN d}

HasFailedRow(d, r) == \E i \in DOMAIN d : d[i].REGNO = r /\ d[i].GRADE = "U"

\* C1: determine_pass_fail returns exactly one entry per distinct REGNO of
\* the subset; the entry's Status is "Fail" iff at least one of the
\* student's rows has GRADE "U", and "Pass" iff none has.
C1_StudentStatus ==
    "determine_pass_fail" \in called =>
        LET t == out["determine_pass_fail"].t
        IN /\ out["determine_pass_fail"].ok
           /\ DOMAIN t = Students(filtered_df)
           /\ \A r \in DOMAIN t :
                /\ t[r].Status = "Fail" <=> HasFailedRow(filtered_df, r)
                /\ t[r].Status = "Pass" <=> ~HasFailedRow(filtered_df, r)

\* C1 witness: a student with a failed and a passed row has been labelled
\* "Fail".
C1_Witness ==
    /\ "determine_pass_fail" \in called
    /\ \E r \in DOMAIN out["determine_pass_fail"].t :
         /\ out["determine_pass_fail"].t[r].Status = "Fail"
         /\ \E i \in DOMAIN filtered_df :
              filtered_df[i].REGNO = r /\ filtered_df[i].GRADE # "U"

SubjectCountSum(t, sub) ==
    SumOver(Range(grade_order), [g \in Range(grade_order) |-> t[<<sub, g>>]])

DenseGradeTable(d, t) ==
    /\ DOMAIN t = Subjects(d) \X Range(grade_order)
    /\ Cardinality(DOMAIN t) = Cardinality(Subjects(d)) * Len(grade_order)
    /\ \A k \in DOMAIN t : t[k] >= 0

\* C2 as stated: grade_distribution_per_subject returns (distinct subject
\* codes) x 7 rows, one per pair of an observed subject code and a grade of
\* grade_order, every Count >= 0, and for each subject code the seven Counts
\* sum to the number of rows of the subset with that subject code.
C2_AsStated ==
    "grade_distribution_per_subject" \in called =>
        LET t == out["grade_distribution_per_subject"].t
        IN /\ DenseGradeTable(filtered_df, t)
           /\ \A sub \in Subjects(filtered_df) :
                SubjectCountSum(t, sub) =
                    Cardinality({i \in DOMAIN filtered_df :
                                    filtered_df[i].SUBCODE = sub})

\* C2 amended: as stated, but the seven Counts of a subject code sum to the
\* number of its rows whose GRADE is one of the seven grades; a row with any
\* other GRADE is counted nowhere, and each Count is the number of rows with
\* that subject code and that grade.
C2_GradeCounts ==
    "grade_distribution_per_subject" \in called =>
        LET t == out["grade_distribution_per_subject"].t
        IN /\ DenseGradeTable(filtered_df, t)
           /\ \A k \in DOMAIN t :
                t[k] = Cardinality({i \in DOMAIN filtered_df :
                                       /\ filtered_df[i].SUBCODE = k[1]
                                       /\ filtered_df[i].GRADE = k[2]})
           /\ \A sub \in Subjects(filtered_df) :
                SubjectCountSum(t, sub) =
                    Cardinality({i \in DOMAIN filtered_df :
                                    /\ filtered_df[i].SUBCODE = sub
                                    /\ filtered_df[i].GRADE \in Range(grade_order)})

\* C2 witness: the table was computed for a subset with a counted grade and
\* a grade outside grade_order.
C2_Witness ==
    /\ "grade_distribution_per_subject" \in called
    /\ \E i, j \in DOMAIN filtered_df :
         /\ filtered_df[i].GRADE \notin Range(grade_order)
         /\ filtered_df[j].GRADE \in Range(grade_order)
    /\ \E k \in DOMAIN out["grade_distribution_per_subject"].t :
         out["grade_distribution_per_subject"].t[k] = 0

\* C3 as stated: for every non-empty subset, also one in which no row fails
\* or no row passes, subject_wise_pass_fail returns one row per distinct
\* subject code with a Fail and a Pass count, and Pass + Fail is the number
\* of rows of the subset with that subject code.
C3_AsStated ==
    ("subject_wise_pass_fail" \in called /\ filtered_df # <<>>) =>
        LET t == out["subject_wise_pass_fail"].t
        IN /\ out["subject_wise_pass_fail"].ok
           /\ DOMAIN t = Subjects(filtered_df)
           /\ \A sub \in DOMAIN t :
                t[sub].Pass + t[sub].Fail =
                    Cardinality({i \in DOMAIN filtered_df :
                                    filtered_df[i].SUBCODE = sub})

FailedRows(d, r) == {i \in DOMAIN d : d[i].REGNO = r /\ d[i].GRADE = "U"}

\* C4: subjects_failed returns a histogram whose entry for k >= 1 is the
\* number of students with exactly k rows of GRADE "U"; students without a
\* failed row are in no entry; the Student Counts sum to the number of
\* distinct REGNO with at least one row of GRADE "U".
C4_ArrearHistogram ==
    "subjects_failed" \in called =>
        LET t == out["subjects_failed"].t
            d == filtered_df
            Exactly(k) == {r \in Students(d) : Cardinality(FailedRows(d, r)) = k}
        IN /\ out["subjects_failed"].ok
           /\ \A k \in DOMAIN t : k >= 1 /\ t[k] = Cardinality(Exactly(k))
           /\ \A k \in 1..Len(d) : Exactly(k) # {} => k \in DOMAIN t
           /\ SumOver(DOMAIN t, t) =
                 Cardinality({r \in Students(d) : HasFailedRow(d, r)})

\* C4 witness: the histogram counts a failed student while another student
\* of the subset has no failed row.
C4_Witness ==
    /\ "subjects_failed" \in called
    /\ DOMAIN out["subjects_failed"].t # {}
    /\ \E r \in Students(filtered_df) : ~HasFailedRow(filtered_df, r)
\* The precondition of C5: the subset is not empty and the rows of each
\* student share one department.
OneDepartmentPerStudent(d) ==
    /\ d # <<>>
    /\ \A i, j \in DOMAIN d : d[i].REGNO = d[j].REGNO => d[i].DEPNAME = d[j].DEPNAME

StudentsOf(d, short) ==
    {r \in Students(d) :
        \E i \in DOMAIN d : /\ d[i].REGNO = r
                            /\ d[i].DEPNAME \in DOMAIN DEPT_ABBREVIATIONS
                            /\ DEPT_ABBREVIATIONS[d[i].DEPNAME] = short}

\* C5: on a non-empty subset in which each student's rows share one
\* department, department_wise_pass_fail returns one row per short
\* department code that has a student, with a Pass and a Fail value; Pass
\* is the number of distinct students of the department without a "U" row
\* and Fail the number with one, so every student of an abbreviated
\* department is counted exactly once and the others nowhere.
C5_DepartmentCounts ==
    ("department_wise_pass_fail" \in called /\ OneDepartmentPerStudent(filtered_df)) =>
        LET t == out["department_wise_pass_fail"].t
            d == filtered_df
            Abbreviated == {r \in Students(d) :
                               \E i \in DOMAIN d :
                                  /\ d[i].REGNO = r
                                  /\ d[i].DEPNAME \in DOMAIN DEPT_ABBREVIATIONS}
        IN /\ out["department_wise_pass_fail"].ok
           /\ DOMAIN t = {short \in Range(DEPT_ABBREVIATIONS) : StudentsOf(d, short) # {}}
           /\ \A short \in DOMAIN t :
                /\ t[short].Pass =
                      Cardinality({r \in StudentsOf(d, short) : ~HasFailedRow(d, r)})
                /\ t[short].Fail =
                      Cardinality({r \in StudentsOf(d, short) : HasFailedRow(d, r)})
           /\ SumOver(DOMAIN t, [short \in DOMAIN t |-> t[short].Pass + t[short].Fail])
                 = Cardinality(Abbreviated)

\* C5 witness: a department whose only student has two rows is listed with
\* an explicit 0, in a subset that satisfies the precondition.
C5_Witness ==
    /\ "department_wise_pass_fail" \in called
    /\ OneDepartmentPerStudent(filtered_df)
    /\ Len(filtered_df) > Cardinality(Students(filtered_df))
    /\ \E short \in DOMAIN out["department_wise_pass_fail"].t :
         \/ out["department_wise_pass_fail"].t[short].Pass = 0
         \/ out["department_wise_pass_fail"].t[short].Fail = 0

LoadFails ==
    \/ upload.kind # "sheet"
    \/ \E col \in Range(required_cols) : col \notin upload.columns

\* A row of the loaded table that the selected department, branch and
\* semester keep.
Selected(r) ==
    /\ \/ sel.department = "Overall"
       \/ /\ sel.department = "Others (Open Elective)"
          /\ \/ <<r.SUBCODE[1], r.SUBCODE[2]>> \notin Range(DEPT_PREFIX)
             \/ \E k \in DOMAIN extra_subjects : r.SUBCODE \in Range(extra_subjects[k])
       \/ /\ sel.department = r.DEPNAME
          /\ sel.branch \in {"All", r.BRNAME}
    /\ \/ sel.semester = "Overall"
       \/ sel.semester = "5" /\ r.SEM = 5
       \/ sel.semester = "7" /\ r.SEM = 7

\* C6: in one render cycle, if the upload cannot be parsed, a required
\* column is missing or the selected filters leave zero rows, no aggregation
\* function is invoked and no derived table is produced; aggregation runs
\* only after a successful load and on a non-empty filtered subset.
C6_NoAggregationOnFailure ==
    /\ (LoadFails \/ pc \in {"idle", "stopped", "warned"}
          \/ (pc \notin {"start", "select"} /\ ~(\E i \in DOMAIN df : Selected(df[i]))))
         => (called = {} /\ out = NoOutput)
    /\ called # {} =>
         /\ ~LoadFails
         /\ filtered_df # <<>>
         /\ \E i \in DOMAIN df : Selected(df[i])

\* C6 witness of the empty subset: a loaded table with rows, of which the
\* selection keeps none, ended with the warning.
C6_Witness ==
    /\ pc = "warned"
    /\ df # <<>>
    /\ called = {}

Occurrences(t, r) == Cardinality({i \in DOMAIN t : t[i] = r})

OpenElective(r) ==
    \/ ~(\E k \in DOMAIN DEPT_PREFIX : startswith(r.SUBCODE, DEPT_PREFIX[k]))
    \/ \E k \in DOMAIN extra_subjects : r.SUBCODE \in Range(extra_subjects[k])

\* C7: with the department selector "Others (Open Elective)", the subset
\* built before the semester filter contains every loaded row whose SUBCODE
\* starts with no department prefix or is in a supplementary code list,
\* contains no row that satisfies neither, and contains no row more often
\* than the loaded table does.
C7_OpenElectiveSubset ==
    (pc = "semester" /\ sel.department = "Others (Open Elective)") =>
        /\ \A i \in DOMAIN df : OpenElective(df[i]) => df[i] \in Range(filtered_df)
        /\ \A j \in DOMAIN filtered_df : OpenElective(filtered_df[j])
        /\ \A r \in Range(filtered_df) : Occurrences(filtered_df, r) <= Occurrences(df, r)

\* C7 witness: the subset was built from a table holding a row that meets
\* both conditions and a row that meets neither.
C7_Witness ==
    /\ pc = "semester"
    /\ sel.department = "Others (Open Elective)"
    /\ \E i, j \in DOMAIN df :
         /\ df[i].SUBCODE = HM5503
         /\ df[j].SUBCODE = AE5501
    /\ Len(filtered_df) = 1
NonMarkColumns ==
    {"DEPNAME", "BRNAME", "SEM", "REGNO", "SUBCODE", "SUBTYPE", "GRADE"}

C9_Idempotence == [][\A f \in called : out'[f] = out[f]]_vars

\* C9 witness: all six functions have been called on a table to which both
\* the Pass column and coerced marks were written.
C9_Witness ==
    /\ called = Range(call_sequence)
    /\ PassCol # <<>>
    /\ filtered_df # df

\* The numeric reading of the mark cells the model loads.
ParsedValue(c) ==
    CASE c.t = "num" -> c.n
      [] c = Txt(<<"3">>) -> 3
      [] c = Txt(<<"1","2">>) -> 12

Parseable(c) == c.t = "num" \/ c \in {Txt(<<"3">>), Txt(<<"1","2">>)}

MeanIs(mean, d, sub, col) ==
    LET P == {i \in DOMAIN d : d[i].SUBCODE = sub /\ Parseable(d[i][col])}
    IN IF P = {} THEN mean.den = 0
       ELSE /\ mean.den > 0
            /\ mean.num * Cardinality(P)
                  = mean.den * SumOver(P, [i \in P |-> ParsedValue(d[i][col])])

\* C10: for each subject code, avg_marks_per_subject reports for each of
\* the three mark columns the sum of the column's numerically parseable
\* values over the subject's rows divided by their number; a non-numeric
\* cell is in neither sum nor count, and never aborts the computation.
C10_SubjectAverages ==
    "avg_marks_per_subject" \in called =>
        LET t == out["avg_marks_per_subject"].t
        IN /\ out["avg_marks_per_subject"].ok
           /\ DOMAIN t = Subjects(df)
           /\ \A sub \in DOMAIN t :
                /\ MeanIs(t[sub].INTERNAL, df, sub, "SESMARK")
                /\ MeanIs(t[sub].EXTERNAL, df, sub, "ESEM")
                /\ MeanIs(t[sub].TOTAL, df, sub, "TOTMARK")

\* C10 witness: a mean was reported for a subject with a numeric and a
\* non-numeric cell in one mark column.
C10_Witness ==
    /\ "avg_marks_per_subject" \in called
    /\ \E i, j \in DOMAIN df :
         /\ df[i].SUBCODE = df[j].SUBCODE
         /\ df[i].SESMARK = Txt(<<"A","B">>)
         /\ Parseable(df[j].SESMARK)
         /\ out["avg_marks_per_subject"].t[df[i].SUBCODE].INTERNAL.den = 1
MissingColumns == {col \in Range(required_cols) : col \notin upload.columns}

\* The message of a load that failed to parse names the cause, and the
\* warning of an empty subset holds the three selections.
NamesCauseOrSelection ==
    /\ (pc = "stopped" /\ upload.kind = "corrupt") =>
          /\ msg.level = "error"
          /\ upload.cause \in Range(msg.text)
    /\ pc = "warned" =>
          /\ msg.level = "warning"
          /\ {sel.department, sel.branch, sel.semester} \subseteq Range(msg.text)

\* C11 as stated: every terminal failure shows a message that names the
\* problem; when required columns are missing the message enumerates the
\* missing columns, and when the filters yield zero rows it includes the
\* selected department, branch and semester.
C11_AsStated ==
    /\ NamesCauseOrSelection
    /\ (pc = "stopped" /\ upload.kind = "sheet") =>
          /\ msg.level = "error"
          /\ MissingColumns \subseteq Range(msg.text)

\* C11 amended: every terminal failure of loading and filtering shows a
\* message: a parse failure the cause, an empty subset the selected
\* department, branch and semester, and missing required columns the fixed
\* text "Excel file is missing required columns!", which names none of the
\* missing columns.
C11_FailureMessages ==
    /\ NamesCauseOrSelection
    /\ (pc = "stopped" /\ upload.kind = "sheet") =>
          /\ MissingColumns # {}
          /\ msg.level = "error"
          /\ msg.text = <<"Excel file is missing required columns!">>
          /\ \A col \in Range(required_cols) : col \notin Range(msg.text)

\* C11 witness: the cycle stopped on a sheet that lacks two required
\* columns, with the error shown.
C11_Witness ==
    /\ pc = "stopped"
    /\ upload.kind = "sheet"
    /\ Cardinality(MissingColumns) > 1
    /\ msg.level = "error"
====
